---- MODULE Spec2Model ----
(***************************************************************************)
(* The LaunchBox metadata importer of the DOS game launcher (lbimport.py): *)
(* the fixed-layout record codec, the title similarity score, the mapping  *)
(* file, and import_metadata as a state machine over the three files it    *)
(* reads and writes (GAMES.DAT, GAMES.DAT.bak, LBMAP.DAT).                 *)
(*                                                                         *)
(* Text is a sequence of Unicode code points, a file is a sequence of      *)
(* bytes (0..255), or NoFile when the path does not exist.                 *)
(***************************************************************************)
EXTENDS Integers, Sequences, FiniteSets, TLC

\* ------------------------------------------------------------------------
\* Program constants
\* ------------------------------------------------------------------------
RECORD_SIZE == 256

MAP_RECORD_SIZE == 48

\* ------------------------------------------------------------------------
\* Bounds of the model
\* ------------------------------------------------------------------------
\* records in GAMES.DAT
MaxRecords == 2

\* entries in the LaunchBox XML
MaxEntries == 2

\* successive calls of import_metadata on the same directory
MaxRuns == 2

\* ------------------------------------------------------------------------
\* Sequence helpers (Python slicing and bytes arithmetic)
\* ------------------------------------------------------------------------
Min(x, y) == IF x < y THEN x ELSE y

Max(x, y) == IF x < y THEN y ELSE x

\* s[:n]
Take(s, n) == SubSeq(s, 1, Min(n, Len(s)))

\* s[lo:hi], 0-based, half-open, clamped to the length as Python does
Slice(s, lo, hi) == SubSeq(s, Min(lo, Len(s)) + 1, Min(hi, Len(s)))

\* b'\x00' * n
Zeros(n) == [k \in 1..Max(n, 0) |-> 0]

\* ------------------------------------------------------------------------
\* The cp437 code page: byte b decodes to Cp437Table[b + 1]; the first 128
\* rows are ASCII
\* ------------------------------------------------------------------------
Cp437Table ==
   << 0, 1, 2, 3, 4, 5, 6, 7, 8, 9, 10, 11, 12, 13, 14, 15,
      16, 17, 18, 19, 20, 21, 22, 23, 24, 25, 26, 27, 28, 29, 30, 31,
      32, 33, 34, 35, 36, 37, 38, 39, 40, 41, 42, 43, 44, 45, 46, 47,
      48, 49, 50, 51, 52, 53, 54, 55, 56, 57, 58, 59, 60, 61, 62, 63,
      64, 65, 66, 67, 68, 69, 70, 71, 72, 73, 74, 75, 76, 77, 78, 79,
      80, 81, 82, 83, 84, 85, 86, 87, 88, 89, 90, 91, 92, 93, 94, 95,
      96, 97, 98, 99, 100, 101, 102, 103, 104, 105, 106, 107, 108, 109, 110, 111,
      112, 113, 114, 115, 116, 117, 118, 119, 120, 121, 122, 123, 124, 125, 126, 127,
      199, 252, 233, 226, 228, 224, 229, 231, 234, 235, 232, 239, 238, 236, 196, 197,
      201, 230, 198, 244, 246, 242, 251, 249, 255, 214, 220, 162, 163, 165, 8359, 402,
      225, 237, 243, 250, 241, 209, 170, 186, 191, 8976, 172, 189, 188, 161, 171, 187,
      9617, 9618, 9619, 9474, 9508, 9569, 9570, 9558, 9557, 9571, 9553, 9559, 9565, 9564, 9563, 9488,
      9492, 9524, 9516, 9500, 9472, 9532, 9566, 9567, 9562, 9556, 9577, 9574, 9568, 9552, 9580, 9575,
      9576, 9572, 9573, 9561, 9560, 9554, 9555, 9579, 9578, 9496, 9484, 9608, 9604, 9612, 9616, 9600,
      945, 223, 915, 960, 931, 963, 181, 964, 934, 920, 937, 948, 8734, 966, 949, 8745,
      8801, 177, 8805, 8804, 8992, 8993, 247, 8776, 176, 8729, 183, 8730, 8319, 178, 9632, 160 >>

Representable(c) == \E k \in 1..256 : Cp437Table[k] = c

\* one character of s.encode('cp437', errors='replace'): '?' for a character
\* the code page does not have
Cp437Encode(c) ==
    IF c \in 0..127 THEN c
    ELSE IF Representable(c)
         THEN (CHOOSE k \in 129..256 : Cp437Table[k] = c) - 1
         ELSE 63

\* one byte of data.decode('cp437', errors='replace')
Cp437Decode(b) == Cp437Table[b + 1]

EncodeText(s) == [k \in 1..Len(s) |-> Cp437Encode(s[k])]

DecodeText(d) == [k \in 1..Len(d) |-> Cp437Decode(d[k])]

\* ------------------------------------------------------------------------
\* Pascal strings
\* ------------------------------------------------------------------------
\* faulty variant: the text is not truncated to the field's capacity
pascal_string_encode_untruncated(s, max_len) ==
    <<Len(s)>> \o EncodeText(s) \o Zeros(max_len - Len(s))

pascal_string_encode(s, max_len) ==
    LET encoded == EncodeText(Take(s, max_len))
    IN  <<Len(encoded)>> \o encoded \o Zeros(max_len - Len(encoded))

pascal_string_decode(data, max_len) ==
    IF Len(data) < 1
    THEN <<>>
    ELSE LET length == IF data[1] > max_len THEN max_len ELSE data[1]
         IN  DecodeText(Slice(data, 1, 1 + length))

\* struct '<H'
PackWord(v) == <<v % 256, (v \div 256) % 256>>

UnpackWord(d, pos) == d[pos + 1] + 256 * d[pos + 2]

\* ------------------------------------------------------------------------
\* Game records (256 bytes)
\* ------------------------------------------------------------------------
pack_game_record(game) ==
    LET title     == pascal_string_encode(game.title, 50)
        path      == pascal_string_encode(game.path, 80)
        command   == pascal_string_encode(game.command, 13)
        args      == pascal_string_encode(game.args, 60)
        publisher == pascal_string_encode(game.publisher, 30)
        year      == pascal_string_encode(game.year, 4)
        filled    == title \o path \o command \o args
                     \o <<game.sound_flags, game.sound_fm,
                          game.sound_midi, game.graphics_flags>>
                     \o publisher \o year
                     \o <<game.genre_code>>
                     \o PackWord(game.slowdown_su)
                     \o <<IF game.requires_cd THEN 1 ELSE 0,
                          IF game.deleted THEN 1 ELSE 0>>
    IN  filled \o Zeros(RECORD_SIZE - Len(filled))

unpack_game_record(data) ==
    [ title          |-> pascal_string_decode(Slice(data, 0, 51), 50),
      path           |-> pascal_string_decode(Slice(data, 51, 132), 80),
      command        |-> pascal_string_decode(Slice(data, 132, 146), 13),
      args           |-> pascal_string_decode(Slice(data, 146, 207), 60),
      sound_flags    |-> data[208],
      sound_fm       |-> data[209],
      sound_midi     |-> data[210],
      graphics_flags |-> data[211],
      publisher      |-> pascal_string_decode(Slice(data, 211, 242), 30),
      year           |-> pascal_string_decode(Slice(data, 242, 247), 4),
      genre_code     |-> data[248],
      slowdown_su    |-> UnpackWord(data, 248),
      requires_cd    |-> data[251] # 0,
      deleted        |-> data[252] # 0 ]

\* ------------------------------------------------------------------------
\* Title similarity
\* ------------------------------------------------------------------------
\* the characters str.strip() removes
WhiteSpace ==
    (9..13) \cup (28..32) \cup {133, 160, 5760} \cup (8192..8202)
    \cup {8232, 8233, 8239, 8287, 12288}

\* str.upper() of one character: ASCII, Latin-1 and the letters of the code
\* page (the sharp s becomes two characters)
UpperChar(c) ==
    IF c \in 97..122 THEN <<c - 32>>
    ELSE IF c \in 224..254 /\ c # 247 THEN <<c - 32>>
    ELSE IF c = 223 THEN <<83, 83>>
    ELSE IF c = 255 THEN <<376>>
    ELSE IF c = 181 THEN <<924>>
    ELSE IF c = 402 THEN <<401>>
    ELSE IF c \in {945, 948, 949, 960, 963, 964, 966} THEN <<c - 32>>
    ELSE <<c>>

RECURSIVE Upper(_)
Upper(s) == IF s = <<>> THEN <<>> ELSE UpperChar(Head(s)) \o Upper(Tail(s))

\* s.replace(':', '')
RECURSIVE RemoveColons(_)
RemoveColons(s) ==
    IF s = <<>> THEN <<>>
    ELSE IF Head(s) = 58 THEN RemoveColons(Tail(s))
    ELSE <<Head(s)>> \o RemoveColons(Tail(s))

\* s.replace('-', ' ')
HyphensToSpaces(s) == [k \in 1..Len(s) |-> IF s[k] = 45 THEN 32 ELSE s[k]]

\* s.replace('  ', ' '): one left-to-right pass over non-overlapping pairs
RECURSIVE ReplaceDoubleSpaces(_)
ReplaceDoubleSpaces(s) ==
    IF Len(s) < 2 THEN s
    ELSE IF s[1] = 32 /\ s[2] = 32
         THEN <<32>> \o ReplaceDoubleSpaces(SubSeq(s, 3, Len(s)))
         ELSE <<s[1]>> \o ReplaceDoubleSpaces(Tail(s))

RECURSIVE LStrip(_)
LStrip(s) ==
    IF s # <<>> /\ Head(s) \in WhiteSpace THEN LStrip(Tail(s)) ELSE s

RECURSIVE RStrip(_)
RStrip(s) ==
    IF s # <<>> /\ s[Len(s)] \in WhiteSpace
    THEN RStrip(SubSeq(s, 1, Len(s) - 1))
    ELSE s

Strip(s) == RStrip(LStrip(s))

normalize_title(title) ==
    Strip(ReplaceDoubleSpaces(HyphensToSpaces(RemoveColons(Upper(title)))))

\* length of the common run of a and b that starts at a[i], b[j] (0-based)
\* and stays inside a[..ahi), b[..bhi)
RunUpTo(a, b, i, j, room) ==
    CHOOSE k \in 0..room :
       /\ \A t \in 0..(k - 1) : a[i + t + 1] = b[j + t + 1]
       /\ k = room \/ a[i + k + 1] # b[j + k + 1]

RunLength(a, b, i, ahi, j, bhi) == RunUpTo(a, b, i, j, Min(ahi - i, bhi - j))

\* the block find_longest_match returns, given the length run[p] of the
\* common run at every pair p of start positions: the longest run; of the
\* longest ones, the one that starts earliest in a, and of those the one that
\* starts earliest in b
BlockAt(p, run) == [i |-> p[1], j |-> p[2], size |-> run[p]]

LongestBlock(starts, run, alo, blo) ==
    IF \A p \in starts : run[p] = 0
    THEN [i |-> alo, j |-> blo, size |-> 0]
    ELSE BlockAt(CHOOSE p \in starts :
                    \A q \in starts :
                       \/ run[q] < run[p]
                       \/ run[q] = run[p] /\ p[1] < q[1]
                       \/ run[q] = run[p] /\ p[1] = q[1] /\ p[2] <= q[2],
                 run)

\* SequenceMatcher.find_longest_match without junk, on a[alo:ahi], b[blo:bhi]
find_longest_match(a, b, alo, ahi, blo, bhi) ==
    LongestBlock((alo..(ahi - 1)) \X (blo..(bhi - 1)),
                 [p \in (alo..(ahi - 1)) \X (blo..(bhi - 1)) |->
                     RunLength(a, b, p[1], ahi, p[2], bhi)],
                 alo, blo)

\* SequenceMatcher.get_matching_blocks, summed: the number of matched
\* characters of a[alo:ahi] and b[blo:bhi]: the longest block m, then the
\* blocks to its left and to its right
RECURSIVE Matches(_, _, _, _, _, _)
RECURSIVE MatchesAround(_, _, _, _, _, _, _)
MatchesAround(a, b, alo, ahi, blo, bhi, m) ==
    IF m.size = 0
    THEN 0
    ELSE m.size
         + Matches(a, b, alo, m.i, blo, m.j)
         + Matches(a, b, m.i + m.size, ahi, m.j + m.size, bhi)

Matches(a, b, alo, ahi, blo, bhi) ==
    IF alo >= ahi \/ blo >= bhi
    THEN 0
    ELSE MatchesAround(a, b, alo, ahi, blo, bhi,
                       find_longest_match(a, b, alo, ahi, blo, bhi))

\* SequenceMatcher.ratio() = 2.0 * matches / (len(a) + len(b)), 1.0 for two
\* empty strings; the score is the fraction <<numerator, denominator>>
Ratio(a, b) ==
    IF Len(a) + Len(b) = 0
    THEN <<1, 1>>
    ELSE <<2 * Matches(a, b, 0, Len(a), 0, Len(b)), Len(a) + Len(b)>>

similarity_ratio(a, b) == Ratio(normalize_title(a), normalize_title(b))

\* comparisons of two scores, and of a score with the threshold 0.8
RatioGreater(r, q) == r[1] * q[2] > q[1] * r[2]

RatioBelowThreshold(r) == 10 * r[1] < 8 * r[2]

\* ------------------------------------------------------------------------
\* Mapping records (48 bytes)
\* ------------------------------------------------------------------------
\* struct '<i': two's complement, little-endian
PackLongInt(v) ==
    LET u  == IF v >= 0 THEN v ELSE -v - 1
        b0 == u % 256
        b1 == (u \div 256) % 256
        b2 == (u \div 65536) % 256
        b3 == (u \div 16777216) % 256
    IN  IF v >= 0 THEN <<b0, b1, b2, b3>>
        ELSE <<255 - b0, 255 - b1, 255 - b2, 255 - b3>>

UnpackLongInt(d, pos) ==
    LET b3 == d[pos + 4]
    IN  d[pos + 1] + 256 * d[pos + 2] + 65536 * d[pos + 3]
        + 16777216 * (IF b3 >= 128 THEN b3 - 256 ELSE b3)

pack_mapping_record(game_index, database_id, guid) ==
    LET guid_encoded == EncodeText(Take(guid, 36))
        filled == PackWord(game_index) \o PackLongInt(database_id)
                  \o <<Len(guid_encoded)>> \o guid_encoded
    IN  filled \o Zeros(MAP_RECORD_SIZE - Len(filled))

unpack_mapping_record(data) ==
    LET guid_len == IF data[7] > 36 THEN 36 ELSE data[7]
    IN  [ game_index  |-> UnpackWord(data, 0),
          database_id |-> UnpackLongInt(data, 2),
          guid        |-> DecodeText(Slice(data, 7, 7 + guid_len)) ]

\* a dict: a function on the set of its keys; d[key] = value
DictSet(d, key, value) ==
    [x \in DOMAIN d \cup {key} |-> IF x = key THEN value ELSE d[x]]

EmptyDict == [x \in {} |-> 0]

\* d.get(key) == value
DictMaps(d, key, value) == key \in DOMAIN d /\ d[key] = value

\* the value of a path that does not exist: no sequence of bytes
NoFile == <<-1>>

\* the loop of load_mapping_file over the first n records of the file
RECURSIVE LoadMappings(_, _)
LoadMappings(data, n) ==
    IF n = 0
    THEN [mappings |-> EmptyDict, guid_mappings |-> EmptyDict]
    ELSE LET prev == LoadMappings(data, n - 1)
             rec  == unpack_mapping_record(
                        Slice(data, (n - 1) * MAP_RECORD_SIZE, n * MAP_RECORD_SIZE))
         IN  IF rec.game_index > 0
             THEN [mappings |->
                      IF rec.database_id > 0
                      THEN DictSet(prev.mappings, rec.database_id, rec.game_index)
                      ELSE prev.mappings,
                   guid_mappings |->
                      IF rec.guid # <<>>
                      THEN DictSet(prev.guid_mappings, rec.guid, rec.game_index)
                      ELSE prev.guid_mappings]
             ELSE prev

load_mapping_file(file) ==
    IF file = NoFile
    THEN [mappings |-> EmptyDict, guid_mappings |-> EmptyDict]
    ELSE LoadMappings(file, Len(file) \div MAP_RECORD_SIZE)

\* the bytes save_mapping_file writes for a list of (game_index,
\* database_id, guid)
RECURSIVE SerializeMappings(_)
SerializeMappings(mappings_list) ==
    IF mappings_list = <<>>
    THEN <<>>
    ELSE pack_mapping_record(Head(mappings_list)[1], Head(mappings_list)[2],
                             Head(mappings_list)[3])
         \o SerializeMappings(Tail(mappings_list))

save_mapping_file(mappings_list) == SerializeMappings(mappings_list)

\* ------------------------------------------------------------------------
\* Matching and merging: the body of the record loop of import_metadata
\* ------------------------------------------------------------------------
\* The exact-match loop over the entries from entry k on: the first entry
\* whose database id or whose GUID the existing mappings bind to game_index.
\* lb_match is the entry's position in lb_metadata, 0 for None.
RECURSIVE ExactMatch(_, _, _, _, _)
ExactMatch(game_index, metadata, mappings, guid_mappings, k) ==
    IF k > Len(metadata)
    THEN [lb_match |-> 0, match_type |-> "fuzzy"]
    ELSE IF /\ metadata[k].database_id > 0
            /\ DictMaps(mappings, metadata[k].database_id, game_index)
         THEN [lb_match |-> k, match_type |-> "exact (DB ID)"]
         ELSE IF /\ metadata[k].guid # <<>>
                 /\ DictMaps(guid_mappings, metadata[k].guid, game_index)
              THEN [lb_match |-> k, match_type |-> "exact (GUID)"]
              ELSE ExactMatch(game_index, metadata, mappings, guid_mappings, k + 1)

\* faulty variant: an entry with an equal score replaces the best so far
KeepBestOrEqual(prev, ratio, k) ==
    IF ~RatioGreater(prev.best_ratio, ratio)
    THEN [best_ratio |-> ratio, lb_match |-> k]
    ELSE prev

\* if ratio > best_ratio: the entry k replaces the best so far
KeepBest(prev, ratio, k) ==
    IF RatioGreater(ratio, prev.best_ratio)
    THEN [best_ratio |-> ratio, lb_match |-> k]
    ELSE prev

\* The fuzzy loop after its first k entries: the best score so far and the
\* entry that set it
RECURSIVE FuzzyBest(_, _, _)
FuzzyBest(title, metadata, k) ==
    IF k = 0
    THEN [best_ratio |-> <<0, 1>>, lb_match |-> 0]
    ELSE KeepBest(FuzzyBest(title, metadata, k - 1),
                  similarity_ratio(title, metadata[k].title), k)

\* only accept fuzzy matches above threshold
AcceptFuzzy(best) ==
    IF RatioBelowThreshold(best.best_ratio)
    THEN [lb_match |-> 0, match_type |-> "fuzzy",
          best_ratio |-> best.best_ratio]
    ELSE [lb_match |-> best.lb_match, match_type |-> "fuzzy (ratio)",
          best_ratio |-> best.best_ratio]

\* the fuzzy fallback with its threshold
FuzzyMatch(title, metadata) ==
    AcceptFuzzy(FuzzyBest(title, metadata, Len(metadata)))

\* fall back to fuzzy matching if no exact match
ExactOrFuzzy(exact, title, metadata) ==
    IF exact.lb_match = 0
    THEN FuzzyMatch(title, metadata)
    ELSE [lb_match |-> exact.lb_match, match_type |-> exact.match_type,
          best_ratio |-> <<0, 1>>]

\* the match of one record: exact match first, fuzzy matching if there is none
FindMatch(game, game_index, metadata, mappings, guid_mappings) ==
    ExactOrFuzzy(ExactMatch(game_index, metadata, mappings, guid_mappings, 1),
                 game.title, metadata)

\* not s or len(s.strip()) == 0
IsBlank(s) == s = <<>> \/ Len(Strip(s)) = 0

\* faulty variant: the entry's publisher replaces the record's
MergeFieldsOverwritingPublisher(game, lb_data) ==
    [game EXCEPT
       !.publisher  = lb_data.publisher,
       !.year       = IF IsBlank(game.year) THEN lb_data.year ELSE @,
       !.genre_code = IF game.genre_code = 0 THEN lb_data.genre_code ELSE @]

\* update fields (only if empty)
MergeFields(game, lb_data) ==
    [game EXCEPT
       !.publisher  = IF IsBlank(game.publisher) THEN lb_data.publisher ELSE @,
       !.year       = IF IsBlank(game.year) THEN lb_data.year ELSE @,
       !.genre_code = IF game.genre_code = 0 THEN lb_data.genre_code ELSE @]

\* the mapping entries one matched record adds to new_mappings
MappingFor(game_index, lb_data) ==
    IF lb_data.database_id > 0 \/ lb_data.guid # <<>>
    THEN << <<game_index, lb_data.database_id, lb_data.guid>> >>
    ELSE <<>>

FieldsChanged(game, old) ==
    \/ game.publisher # old.publisher
    \/ game.year # old.year
    \/ game.genre_code # old.genre_code

\* record i (0-based) of a file of 256-byte records
RecordData(file, n) == Slice(file, n * RECORD_SIZE, (n + 1) * RECORD_SIZE)

RecordCount(file) == Len(file) \div RECORD_SIZE

\* ------------------------------------------------------------------------
\* Inputs of the model
\* ------------------------------------------------------------------------
BlankGame ==
    [ title |-> <<>>, path |-> <<67, 58, 92, 71, 65, 77, 69, 83>>,
      command |-> <<71, 79, 46, 69, 88, 69>>, args |-> <<>>,
      sound_flags |-> 1, sound_fm |-> 0, sound_midi |-> 2,
      graphics_flags |-> 4, publisher |-> <<>>, year |-> <<>>,
      genre_code |-> 0, slowdown_su |-> 300, requires_cd |-> FALSE,
      deleted |-> FALSE ]

\* "ABC", nothing filled in
RecordABC == pack_game_record([BlankGame EXCEPT !.title = <<65, 66, 67>>])

\* "AB", publisher "Own" and genre 3 set by the user, no year; written by the
\* launcher with a stale byte after the publisher's text
RecordAB ==
    [pack_game_record([BlankGame EXCEPT !.title = <<65, 66>>,
                                        !.publisher = <<79, 119, 110>>,
                                        !.genre_code = 3])
       EXCEPT ![220] = 88]

\* "XY", a publisher of one space, year "1985"
RecordXY ==
    pack_game_record([BlankGame EXCEPT !.title = <<88, 89>>,
                                       !.publisher = <<32>>,
                                       !.year = <<49, 57, 56, 53>>,
                                       !.requires_cd = TRUE])

\* a deleted "ABC" as the launcher left it: flag byte 2, stale bytes after
\* the title and in the padding
RecordDeleted ==
    [pack_game_record([BlankGame EXCEPT !.title = <<65, 66, 67>>,
                                        !.deleted = TRUE])
       EXCEPT ![252] = 2, ![10] = 90, ![256] = 7]

RecordChoices == {RecordABC, RecordAB, RecordXY, RecordDeleted}

EntryABC ==
    [ title |-> <<65, 66, 67>>, publisher |-> <<79, 114, 105, 103, 105, 110>>,
      year |-> <<49, 57, 57, 48>>, genre_code |-> 10, database_id |-> 5,
      guid |-> <<>> ]

EntryAB ==
    [ title |-> <<65, 66>>, publisher |-> <<>>, year |-> <<>>,
      genre_code |-> 0, database_id |-> 6, guid |-> <<103>> ]

\* "a-b", no database id and no GUID
EntryAdashB ==
    [ title |-> <<97, 45, 98>>, publisher |-> <<69, 112, 121, 120>>,
      year |-> <<49, 57, 56, 55>>, genre_code |-> 1, database_id |-> 0,
      guid |-> <<>> ]

EntryChoices == {EntryABC, EntryAB, EntryAdashB}

\* parse_launchbox_xml returns a dict keyed by title: the entries in document
\* order, no two with the same title
Catalogs ==
    { c \in UNION { [1..n -> EntryChoices] : n \in 0..MaxEntries } :
        \A a, b \in 1..Len(c) : a # b => c[a].title # c[b].title }

RECURSIVE Flatten(_)
Flatten(records) ==
    IF records = <<>> THEN <<>> ELSE Head(records) \o Flatten(Tail(records))

\* GAMES.DAT before the first run: up to MaxRecords records, none of them twice
Databases ==
    { Flatten(r) :
        r \in { q \in UNION { [1..n -> RecordChoices] : n \in 0..MaxRecords } :
                  \A a, b \in 1..Len(q) : a # b => q[a] # q[b] } }

\* LBMAP.DAT before the first run: absent; slot 1 bound to id 5 and GUID "g";
\* slot 1 bound to id 6, then an unused record (slot 0)
MapFiles ==
    { NoFile,
      pack_mapping_record(1, 5, <<103>>),
      pack_mapping_record(1, 6, <<>>) \o pack_mapping_record(0, 5, <<103>>) }

\* ------------------------------------------------------------------------
\* State
\* ------------------------------------------------------------------------
VARIABLES
    games_file,             \* GAMES.DAT
    bak_file,               \* GAMES.DAT.bak
    map_file,               \* LBMAP.DAT
    lb_metadata,            \* the parsed LaunchBox XML
    dry_run,                \* the argument of the running call
    pc,                     \* where the running call is
    runs,                   \* calls started so far
    existing_mappings,      \* database_id -> game_index
    existing_guid_mappings, \* guid -> game_index
    data,                   \* GAMES.DAT as read
    i,                      \* records processed
    updated_data,
    updates,
    new_mappings,
    lb_match,               \* the match of the last record matched
    match_type,
    best_ratio,
    prev_mappings,          \* new_mappings of the previous call
    prev_dry,               \* dry_run of the previous call
    rec_in,                 \* codec: a game record value
    rec_bytes,              \* codec: its packed bytes
    rec_out,                \* codec: the bytes unpacked
    cpc                     \* codec: position

files == <<games_file, bak_file, map_file>>

locals == <<existing_mappings, existing_guid_mappings, data, i, updated_data,
            updates, new_mappings, lb_match, match_type, best_ratio>>

history == <<prev_mappings, prev_dry>>

codec == <<rec_in, rec_bytes, rec_out, cpc>>

vars == <<files, lb_metadata, dry_run, pc, runs, locals, history, codec>>

Init ==
    /\ games_file \in Databases
    /\ bak_file = NoFile
    /\ map_file \in MapFiles
    /\ lb_metadata \in Catalogs
    /\ dry_run = FALSE
    /\ pc = "idle"
    /\ runs = 0
    /\ existing_mappings = EmptyDict
    /\ existing_guid_mappings = EmptyDict
    /\ data = <<>>
    /\ i = 0
    /\ updated_data = <<>>
    /\ updates = 0
    /\ new_mappings = <<>>
    /\ lb_match = 0
    /\ match_type = "fuzzy"
    /\ best_ratio = <<0, 1>>
    /\ prev_mappings = <<>>
    /\ prev_dry = TRUE
    /\ rec_in = BlankGame
    /\ rec_bytes = <<>>
    /\ rec_out = BlankGame
    /\ cpc = "off"

\* ------------------------------------------------------------------------
\* import_metadata, step by step
\* ------------------------------------------------------------------------
LoadedMappings(loaded) ==
    /\ existing_mappings' = loaded.mappings
    /\ existing_guid_mappings' = loaded.guid_mappings

\* the call starts: parse the XML, load the mappings, read GAMES.DAT
LoadInputs ==
    /\ pc \in {"idle", "done"}
    /\ runs < MaxRuns
    /\ \E d \in BOOLEAN : dry_run' = d
    /\ runs' = runs + 1
    /\ prev_mappings' = new_mappings
    /\ prev_dry' = (pc = "idle" \/ dry_run)
    /\ LoadedMappings(load_mapping_file(map_file))
    /\ data' = games_file
    /\ i' = 0
    /\ updated_data' = <<>>
    /\ updates' = 0
    /\ new_mappings' = <<>>
    /\ lb_match' = 0
    /\ match_type' = "fuzzy"
    /\ best_ratio' = <<0, 1>>
    /\ pc' = "loop"
    /\ UNCHANGED <<files, lb_metadata, codec>>

\* faulty variant: a deleted record is decoded and packed again
CopyDeletedRepacked(record_data) ==
    /\ updated_data' =
          updated_data \o pack_game_record(unpack_game_record(record_data))
    /\ UNCHANGED <<updates, new_mappings, lb_match, match_type, best_ratio>>

\* a deleted record is copied as read
CopyDeleted(record_data) ==
    /\ updated_data' = updated_data \o record_data
    /\ UNCHANGED <<updates, new_mappings, lb_match, match_type, best_ratio>>

\* faulty variant: the mapping is stored only for a record whose fields changed
UpdateRecordMappingChangesOnly(game, game_index, m, merged) ==
    /\ lb_match' = m.lb_match
    /\ match_type' = m.match_type
    /\ best_ratio' = m.best_ratio
    /\ new_mappings' =
          IF m.lb_match # 0 /\ FieldsChanged(merged, game)
          THEN new_mappings \o MappingFor(game_index, lb_metadata[m.lb_match])
          ELSE new_mappings
    /\ updates' = IF FieldsChanged(merged, game) THEN updates + 1 ELSE updates
    /\ updated_data' = updated_data \o pack_game_record(merged)

\* update if match found, pack the updated record
UpdateRecord(game, game_index, m, merged) ==
    /\ lb_match' = m.lb_match
    /\ match_type' = m.match_type
    /\ best_ratio' = m.best_ratio
    /\ new_mappings' =
          IF m.lb_match # 0
          THEN new_mappings \o MappingFor(game_index, lb_metadata[m.lb_match])
          ELSE new_mappings
    /\ updates' = IF FieldsChanged(merged, game) THEN updates + 1 ELSE updates
    /\ updated_data' = updated_data \o pack_game_record(merged)

MergeMatch(game, m) ==
    IF m.lb_match # 0 THEN MergeFields(game, lb_metadata[m.lb_match]) ELSE game

MatchAndUpdate(game, game_index, m) ==
    UpdateRecord(game, game_index, m, MergeMatch(game, m))

ProcessGame(record_data, game, game_index) ==
    IF game.deleted
    THEN CopyDeleted(record_data)
    ELSE MatchAndUpdate(game, game_index,
                        FindMatch(game, game_index, lb_metadata,
                                  existing_mappings, existing_guid_mappings))

ProcessData(record_data, game_index) ==
    ProcessGame(record_data, unpack_game_record(record_data), game_index)

\* one iteration of the record loop
ProcessRecord ==
    /\ pc = "loop"
    /\ i < RecordCount(data)
    /\ ProcessData(RecordData(data, i), i + 1)
    /\ i' = i + 1
    /\ UNCHANGED <<files, lb_metadata, dry_run, pc, runs, existing_mappings,
                   existing_guid_mappings, data, history, codec>>

\* faulty variant: the dry_run argument is ignored
ReportThenWrite ==
    /\ pc = "loop"
    /\ i = RecordCount(data)
    /\ pc' = "backup_open"
    /\ UNCHANGED <<files, lb_metadata, dry_run, runs, locals, history, codec>>

\* the loop is over: print the report, then write or stop (dry run)
Report ==
    /\ pc = "loop"
    /\ i = RecordCount(data)
    /\ pc' = IF dry_run THEN "done" ELSE "backup_open"
    /\ UNCHANGED <<files, lb_metadata, dry_run, runs, locals, history, codec>>

\* open(backup_path, 'wb')
OpenBackup ==
    /\ pc = "backup_open"
    /\ bak_file' = <<>>
    /\ pc' = "backup_write"
    /\ UNCHANGED <<games_file, map_file, lb_metadata, dry_run, runs, locals,
                   history, codec>>

\* faulty variant: the backup receives the updated records
WriteBackupOfUpdated ==
    /\ pc = "backup_write"
    /\ bak_file' = updated_data
    /\ pc' = "games_open"
    /\ UNCHANGED <<games_file, map_file, lb_metadata, dry_run, runs, locals,
                   history, codec>>

\* f.write(data)
WriteBackup ==
    /\ pc = "backup_write"
    /\ bak_file' = data
    /\ pc' = "games_open"
    /\ UNCHANGED <<games_file, map_file, lb_metadata, dry_run, runs, locals,
                   history, codec>>

\* open(games_dat_path, 'wb')
OpenGames ==
    /\ pc = "games_open"
    /\ games_file' = <<>>
    /\ pc' = "games_write"
    /\ UNCHANGED <<bak_file, map_file, lb_metadata, dry_run, runs, locals,
                   history, codec>>

\* f.write(updated_data)
WriteGames ==
    /\ pc = "games_write"
    /\ games_file' = updated_data
    /\ pc' = "map_open"
    /\ UNCHANGED <<bak_file, map_file, lb_metadata, dry_run, runs, locals,
                   history, codec>>

\* if new_mappings: save_mapping_file opens LBMAP.DAT for writing
OpenMap ==
    /\ pc = "map_open"
    /\ IF new_mappings # <<>>
       THEN /\ map_file' = <<>>
            /\ pc' = "map_write"
       ELSE /\ map_file' = map_file
            /\ pc' = "done"
    /\ UNCHANGED <<games_file, bak_file, lb_metadata, dry_run, runs, locals,
                   history, codec>>

\* save_mapping_file writes the records
WriteMap ==
    /\ pc = "map_write"
    /\ map_file' = save_mapping_file(new_mappings)
    /\ pc' = "done"
    /\ UNCHANGED <<games_file, bak_file, lb_metadata, dry_run, runs, locals,
                   history, codec>>

Next ==
    \/ LoadInputs
    \/ ProcessRecord
    \/ Report
    \/ OpenBackup
    \/ WriteBackup
    \/ OpenGames
    \/ WriteGames
    \/ OpenMap
    \/ WriteMap

Spec == Init /\ [][Next]_vars

\* ------------------------------------------------------------------------
\* The record codec on its own: pack a game record value, unpack the bytes
\* ------------------------------------------------------------------------
\* n copies of the character c
Repeat(c, n) == [k \in 1..n |-> c]

\* "", "AB", 50 and 51 characters, e-acute (byte 130), a euro sign (not in
\* the code page)
CodecTitles ==
    { <<>>, <<65, 66>>, Repeat(65, 50), Repeat(65, 50) \o <<66>>,
      <<233, 66>>, <<8364, 66>> }

\* the other text fields: within their limits, or one character over
ShortTexts ==
    [ path |-> <<67, 58, 92, 71>>, command |-> <<71, 79, 46, 69, 88, 69>>,
      args |-> <<47, 83>>, publisher |-> <<79, 119, 110>>,
      year |-> <<49, 57, 57, 48>> ]

LongTexts ==
    [ path |-> Repeat(80, 80) \o <<81>>, command |-> Repeat(67, 13) \o <<68>>,
      args |-> Repeat(65, 60) \o <<66>>, publisher |-> Repeat(80, 30) \o <<81>>,
      year |-> <<49, 57, 57, 48, 53>> ]

GameInputs ==
    { [ title |-> t, path |-> x.path, command |-> x.command, args |-> x.args,
        sound_flags |-> f, sound_fm |-> 0, sound_midi |-> 3,
        graphics_flags |-> 255 - f, publisher |-> x.publisher,
        year |-> x.year, genre_code |-> g, slowdown_su |-> w,
        requires_cd |-> d, deleted |-> ~d ] :
        t \in CodecTitles, x \in {ShortTexts, LongTexts}, f \in {0, 255},
        g \in {0, 28}, w \in {0, 65535}, d \in BOOLEAN }

\* buffers that no pack produced: a title length byte over the maximum, and
\* a buffer one byte short
RawBuffers ==
    { [RecordABC EXCEPT ![1] = 200], SubSeq(RecordABC, 1, RECORD_SIZE - 1) }

InitCodec ==
    /\ \/ /\ rec_in \in GameInputs
          /\ rec_bytes = <<>>
          /\ cpc = "input"
       \/ /\ rec_in = BlankGame
          /\ rec_bytes \in RawBuffers
          /\ cpc = "raw"
    /\ rec_out = BlankGame
    /\ games_file = <<>>
    /\ bak_file = NoFile
    /\ map_file = NoFile
    /\ lb_metadata = <<>>
    /\ dry_run = FALSE
    /\ pc = "off"
    /\ runs = 0
    /\ existing_mappings = EmptyDict
    /\ existing_guid_mappings = EmptyDict
    /\ data = <<>>
    /\ i = 0
    /\ updated_data = <<>>
    /\ updates = 0
    /\ new_mappings = <<>>
    /\ lb_match = 0
    /\ match_type = "fuzzy"
    /\ best_ratio = <<0, 1>>
    /\ prev_mappings = <<>>
    /\ prev_dry = TRUE

Pack ==
    /\ cpc = "input"
    /\ rec_bytes' = pack_game_record(rec_in)
    /\ cpc' = "packed"
    /\ UNCHANGED <<rec_in, rec_out, files, lb_metadata, dry_run, pc, runs,
                   locals, history>>

\* unpack_game_record raises ValueError unless it is given 256 bytes
Unpack ==
    /\ cpc \in {"packed", "raw"}
    /\ IF Len(rec_bytes) # RECORD_SIZE
       THEN /\ cpc' = "error"
            /\ rec_out' = rec_out
       ELSE /\ cpc' = IF cpc = "packed" THEN "unpacked" ELSE "decoded"
            /\ rec_out' = unpack_game_record(rec_bytes)
    /\ UNCHANGED <<rec_in, rec_bytes, files, lb_metadata, dry_run, pc, runs,
                   locals, history>>

NextCodec ==
    \/ Pack
    \/ Unpack

SpecCodec == InitCodec /\ [][NextCodec]_vars

\* ------------------------------------------------------------------------
\* Properties
\* ------------------------------------------------------------------------
\* a call of import_metadata has read its inputs
Running == pc \notin {"idle", "off"}

\* record s (1-based) as read, and as appended to updated_data
OldGame(s) == unpack_game_record(RecordData(data, s - 1))

NewGame(s) == unpack_game_record(RecordData(updated_data, s - 1))

\* the slots the running call has processed
Processed == IF Running THEN 1..i ELSE {}

Live(s) == ~OldGame(s).deleted

\* the last record processed was matched (or found without match) in the
\* last step of the loop: lb_match, match_type and best_ratio are its own
LastIsLive == Running /\ i >= 1 /\ Live(i)

\* empty, or nothing but whitespace
WhitespaceOnly(t) == \A k \in 1..Len(t) : t[k] \in WhiteSpace

Entries == 1..Len(lb_metadata)

\* the existing mappings bind entry k's database id, or its GUID, to slot s
IdBound(k, s) ==
    /\ lb_metadata[k].database_id > 0
    /\ lb_metadata[k].database_id \in DOMAIN existing_mappings
    /\ existing_mappings[lb_metadata[k].database_id] = s

GuidBound(k, s) ==
    /\ lb_metadata[k].guid # <<>>
    /\ lb_metadata[k].guid \in DOMAIN existing_guid_mappings
    /\ existing_guid_mappings[lb_metadata[k].guid] = s

SameMergedFields(g, h) ==
    /\ g.publisher = h.publisher
    /\ g.year = h.year
    /\ g.genre_code = h.genre_code

\* the content of a file, nothing for a file that does not exist
FileContent(f) == IF f = NoFile THEN <<>> ELSE f

\* a record that is not deleted keeps each field that held a value
OwnFieldsKept(old, new) ==
    ~old.deleted =>
       /\ ~WhitespaceOnly(old.publisher) => new.publisher = old.publisher
       /\ ~WhitespaceOnly(old.year) => new.year = old.year
       /\ old.genre_code # 0 => new.genre_code = old.genre_code

\* a field that differs holds the value of the entry the record matched
ChangesAreFromMatch(old, new) ==
    /\ new.publisher # old.publisher
          => /\ lb_match # 0
             /\ new.publisher = lb_metadata[lb_match].publisher
    /\ new.year # old.year
          => /\ lb_match # 0
             /\ new.year = lb_metadata[lb_match].year
    /\ new.genre_code # old.genre_code
          => /\ lb_match # 0
             /\ new.genre_code = lb_metadata[lb_match].genre_code

\* C1. Non-destructive merge: for every record that is not deleted, whatever
\* matched it, the publisher is as before when it was neither empty nor
\* whitespace-only, the year likewise, the genre code is as before when it
\* was not 0; a field that differs holds the matched entry's value; and a
\* written database is the merged records.
NonDestructiveMerge ==
    /\ \A s \in Processed : OwnFieldsKept(OldGame(s), NewGame(s))
    /\ LastIsLive => ChangesAreFromMatch(OldGame(i), NewGame(i))
    /\ (pc = "done" /\ ~dry_run) => games_file = updated_data

\* a record with its own publisher was matched with an entry that has
\* another publisher; its year, empty before, was filled in
NonDestructiveMergeWitness ==
    /\ LastIsLive
    /\ lb_match # 0
    /\ ~WhitespaceOnly(OldGame(i).publisher)
    /\ lb_metadata[lb_match].publisher # <<>>
    /\ lb_metadata[lb_match].publisher # OldGame(i).publisher
    /\ NewGame(i).publisher = OldGame(i).publisher
    /\ NewGame(i).year # OldGame(i).year

\* C2. Merge idempotence: in a call that follows a call that wrote its
\* results, with the same catalog, no record's publisher, year or genre code
\* changes and every entry of the mapping list is in the previous call's list.
MergeIdempotence ==
    (Running /\ ~prev_dry /\ ~dry_run) =>
       /\ \A s \in Processed : SameMergedFields(NewGame(s), OldGame(s))
       /\ \A e \in 1..Len(new_mappings) :
             \E f \in 1..Len(prev_mappings) : prev_mappings[f] = new_mappings[e]

\* C3. Match tier precedence: if some entry's database id is bound to the
\* record's slot, the match is such an entry, by id, wherever a GUID-bound
\* entry stands; the GUID index decides only if no id is bound; fuzzy
\* scoring only if neither is.
MatchTierPrecedence ==
    LastIsLive =>
       /\ (\E k \in Entries : IdBound(k, i))
             => /\ match_type = "exact (DB ID)"
                /\ lb_match # 0
                /\ IdBound(lb_match, i)
       /\ ((\A k \in Entries : ~IdBound(k, i)) /\ (\E k \in Entries : GuidBound(k, i)))
             => /\ match_type = "exact (GUID)"
                /\ lb_match # 0
                /\ GuidBound(lb_match, i)
       /\ (\A k \in Entries : ~IdBound(k, i) /\ ~GuidBound(k, i))
             => match_type \in {"fuzzy", "fuzzy (ratio)"}

\* the similarity of the last record's title and entry k's title
Score(k) == similarity_ratio(OldGame(i).title, lb_metadata[k].title)

NoExactBinding == \A k \in Entries : ~IdBound(k, i) /\ ~GuidBound(k, i)

\* the scores of every entry against a title, in the order of the catalog
RECURSIVE ScoresUpTo(_, _)
ScoresUpTo(title, n) ==
    IF n = 0
    THEN <<>>
    ELSE Append(ScoresUpTo(title, n - 1),
                similarity_ratio(title, lb_metadata[n].title))

Scores(title) == ScoresUpTo(title, Len(lb_metadata))

\* sc[k] is strictly below 0.8
BelowThreshold(sc, k) == 10 * sc[k][1] < 8 * sc[k][2]

\* sc[k] <= sc[m], and sc[k] < sc[m]
NotAbove(sc, k, m) == sc[k][1] * sc[m][2] <= sc[m][1] * sc[k][2]

StrictlyBelow(sc, k, m) == sc[k][1] * sc[m][2] < sc[m][1] * sc[k][2]

\* the match the scores sc determine
FuzzyRule(sc) ==
    /\ lb_match = 0 <=> \A k \in Entries : BelowThreshold(sc, k)
    /\ lb_match # 0 =>
          /\ match_type = "fuzzy (ratio)"
          /\ best_ratio = sc[lb_match]
          /\ \A k \in Entries : NotAbove(sc, k, lb_match)
          /\ \A k \in 1..(lb_match - 1) : StrictlyBelow(sc, k, lb_match)

\* C4. Fuzzy fallback: when no exact mapping resolves, there is no match
\* exactly if every entry scores strictly below 0.8; otherwise the match is
\* the first entry, in the order of the catalog, that attains the maximum.
FuzzyFallback ==
    (LastIsLive /\ NoExactBinding) => FuzzyRule(Scores(OldGame(i).title))

\* two entries tie at exactly 0.8 and the earlier one is the match
FuzzyFallbackWitness ==
    /\ LastIsLive
    /\ NoExactBinding
    /\ lb_match # 0
    /\ 10 * Score(lb_match)[1] = 8 * Score(lb_match)[2]
    /\ \E k \in Entries : k > lb_match /\ Score(k) = Score(lb_match)

\* C5. Deleted records: the record appended for a deleted slot is the 256
\* bytes read, the mapping list has no entry for the slot, and a written
\* database holds those bytes at that slot.
DeletedUntouched ==
    /\ \A s \in Processed :
          ~Live(s) =>
             /\ RecordData(updated_data, s - 1) = RecordData(data, s - 1)
             /\ \A e \in 1..Len(new_mappings) : new_mappings[e][1] # s
    /\ (pc = "done" /\ ~dry_run) =>
          /\ RecordCount(games_file) = RecordCount(data)
          /\ \A s \in 1..RecordCount(data) :
                ~Live(s) => RecordData(games_file, s - 1) = RecordData(data, s - 1)

\* a deleted slot that the existing mappings bind to an entry, whose title an
\* entry has, and whose bytes packing would not reproduce, after the write
DeletedUntouchedWitness ==
    /\ pc = "done"
    /\ ~dry_run
    /\ \E s \in 1..RecordCount(data) :
          /\ ~Live(s)
          /\ \E k \in Entries :
                /\ IdBound(k, s)
                /\ lb_metadata[k].title = OldGame(s).title
          /\ pack_game_record(OldGame(s)) # RecordData(data, s - 1)
          /\ RecordData(games_file, s - 1) = RecordData(data, s - 1)

\* C6. The mapping table is rewritten in full: after a call that writes, the
\* mapping file holds the serialization of the call's mapping list and
\* nothing else, also when the list is empty.
MappingFileRewritten ==
    (pc = "done" /\ ~dry_run) =>
       FileContent(map_file) = SerializeMappings(new_mappings)

\* the entry a step of the loop must add for the record it processes
ExpectedMapping ==
    IF /\ ~unpack_game_record(RecordData(data, i)).deleted
       /\ lb_match' # 0
       /\ \/ lb_metadata[lb_match'].database_id > 0
          \/ lb_metadata[lb_match'].guid # <<>>
    THEN << <<i + 1, lb_metadata[lb_match'].database_id,
              lb_metadata[lb_match'].guid>> >>
    ELSE <<>>

\* C7. Mapping recording: the list starts empty; the step that processes a
\* record appends one entry (slot, id, guid) if the record is not deleted and
\* matched an entry with a positive id or a non-empty GUID, and nothing
\* otherwise, whatever the merge changed; no other step changes the list.
MappingRecorded ==
    [][ IF pc = "loop" /\ i' = i + 1
        THEN new_mappings' = new_mappings \o ExpectedMapping
        ELSE IF pc' = "loop"
             THEN new_mappings' = <<>>
             ELSE new_mappings' = new_mappings ]_vars

\* a matched record none of whose fields changed has its mapping entry
MappingRecordedWitness ==
    /\ LastIsLive
    /\ lb_match # 0
    /\ SameMergedFields(NewGame(i), OldGame(i))
    /\ new_mappings # <<>>
    /\ new_mappings[Len(new_mappings)][1] = i

\* what GAMES.DAT held when the call read it is still in GAMES.DAT or in the
\* backup
PreRunStateKept == Running => (games_file = data \/ bak_file = data)

\* C8. Write ordering: the backup is written only after all records are
\* processed and while GAMES.DAT is as read; GAMES.DAT is written only when
\* the backup holds all that was read; the mapping file only after GAMES.DAT
\* holds the updated records; so the content read is never lost.
WriteOrderKeepsPreRunState ==
    /\ []PreRunStateKept
    /\ [][ /\ bak_file' # bak_file =>
                /\ pc \in {"backup_open", "backup_write"}
                /\ i = RecordCount(data)
                /\ games_file = data
           /\ games_file' # games_file =>
                /\ pc \in {"games_open", "games_write"}
                /\ bak_file = data
           /\ map_file' # map_file =>
                /\ pc \in {"map_open", "map_write"}
                /\ bak_file = data
                /\ games_file = updated_data ]_vars

\* GAMES.DAT is open for writing and empty; the backup holds what was read,
\* which the update changes
WriteOrderWitness ==
    /\ pc = "games_write"
    /\ games_file = <<>>
    /\ bak_file = data
    /\ data # <<>>
    /\ updated_data # data

\* x with each text field cut to its capacity
Canonical(x) ==
    [x EXCEPT !.title = Take(@, 50), !.path = Take(@, 80),
              !.command = Take(@, 13), !.args = Take(@, 60),
              !.publisher = Take(@, 30), !.year = Take(@, 4)]

TextRepresentable(x) ==
    \A t \in {x.title, x.path, x.command, x.args, x.publisher, x.year} :
       \A k \in 1..Len(t) : Representable(t[k])

\* C9. Codec round trip: packing gives 256 bytes, and a record whose text the
\* code page has unpacks to the same record with each text field cut to its
\* capacity (title 50, path 80, command 13, args 60, publisher 30, year 4).
CodecRoundTrip ==
    /\ cpc \in {"packed", "unpacked"} => Len(rec_bytes) = RECORD_SIZE
    /\ cpc = "error" => rec_in = BlankGame
    /\ (cpc = "unpacked" /\ TextRepresentable(rec_in)) =>
          rec_out = Canonical(rec_in)

\* a title of 51 characters came back as its first 50
CodecRoundTripWitness ==
    /\ cpc = "unpacked"
    /\ TextRepresentable(rec_in)
    /\ Len(rec_in.title) = 51
    /\ rec_out.title = SubSeq(rec_in.title, 1, 50)
    /\ rec_out.year = rec_in.year
    /\ rec_out # rec_in

\* C10. Dry run: no step of a dry run changes GAMES.DAT, the backup or the
\* mapping file, and the run ends with every record processed in memory.
DryRunWritesNothing ==
    /\ [][ dry_run =>
              /\ games_file' = games_file
              /\ bak_file' = bak_file
              /\ map_file' = map_file ]_vars
    /\ []((dry_run /\ pc = "done") =>
              Len(updated_data) = RECORD_SIZE * RecordCount(data))

\* a dry run ended: it merged a field and collected a mapping in memory, and
\* there is still no backup and no mapping file
DryRunWitness ==
    /\ pc = "done"
    /\ dry_run
    /\ updated_data # data
    /\ new_mappings # <<>>
    /\ games_file = data
    /\ bak_file = NoFile
    /\ map_file = NoFile

====
